---- MODULE Spec2Model ----
(***************************************************************************)
(* Model of simple_analyzer/analyzer.py: StaticAnalyzer.analyze and the    *)
(* two ast.NodeVisitor subclasses it drives, VariableAnalyzer and          *)
(* ImportAnalyzer.                                                         *)
(*                                                                         *)
(* The syntax tree is produced by ast.parse, which is outside the          *)
(* repository.  The model therefore lets the environment choose the tree   *)
(* node by node while the visitors walk it: `tree` is the pre-order list   *)
(* of the statements visited so far, a FunctionDef/ClassDef entry opening  *)
(* a body that an "End" entry closes.  Expressions are small nested        *)
(* records handled whole by the visit operators.                           *)
(*                                                                         *)
(* analyze runs VariableAnalyzer over the whole tree and then              *)
(* ImportAnalyzer over the same tree.  The two visitors share no state     *)
(* and visit the statements in the same order, so the model advances both  *)
(* on each statement and writes the report when the walk ends.             *)
(*                                                                         *)
(* Python values:                                                          *)
(*   - a dict is a function with a finite domain;                          *)
(*   - a string that may contain dots (a module or import name) is the     *)
(*     sequence of its dot-separated segments: "os.path" is                *)
(*     <<"os", "path">>, the identifier "os" is <<"os">>, "" is <<>>;      *)
(*   - an int-or-None value (SyntaxError.lineno) is <<n>> or <<>>;         *)
(*   - a list built from a dict or a set (unused_vars, unused_imports,     *)
(*     star_imports) is the set of its elements; syntax_errors, which is   *)
(*     appended to, is a sequence.                                         *)
(***************************************************************************)
EXTENDS Integers, Sequences, FiniteSets, TLC

\* Bounds of the model.
MaxStmtsVariables == 4
MaxStmtsImports == 3
MaxStmtsFull == 3
MaxCalls == 2
MaxDepth == 2
MaxErrorLine == 2
MaxChain == 2

VARIABLES
    profile,   \* which family of programs the environment feeds to analyze
    pc,        \* "idle": no call in progress; "walk": the visitors are in the tree
    report,    \* StaticAnalyzer.report
    va,        \* the VariableAnalyzer of the current (or last) call
    ia,        \* the ImportAnalyzer of the current (or last) call
    tree,      \* the statements of the current tree visited so far, in pre-order
    lineno,    \* line of the last statement visited
    depth,     \* number of function/class bodies the walk is inside
    stmts,     \* statements this StaticAnalyzer has visited over all its calls
    returned   \* one entry per finished call: its input and the report it returned

vars == <<profile, pc, report, va, ia, tree, lineno, depth, stmts, returned>>

Last(s) == s[Len(s)]
Range(s) == {s[i] : i \in DOMAIN s}

(***************************************************************************)
(* Python values                                                           *)
(***************************************************************************)
None == <<>>
PyInt(n) == <<n>>
EmptyDict == [k \in {} |-> 0]
DictSet(d, keys, v) == [k \in DOMAIN d \cup keys |-> IF k \in keys THEN v ELSE d[k]]
DictUpdate(d, e) == [k \in DOMAIN d \cup DOMAIN e |-> IF k \in DOMAIN e THEN e[k] ELSE d[k]]
DictFilter(d, keys) == [k \in DOMAIN d \cap keys |-> d[k]]
Star == <<"*">>

(***************************************************************************)
(* Syntax-tree nodes (module ast)                                          *)
(***************************************************************************)
Name(id, ctx) == [type |-> "Name", id |-> id, ctx |-> ctx]
Attribute(value, attr) == [type |-> "Attribute", value |-> value, attr |-> attr]
Call(func, args) == [type |-> "Call", func |-> func, args |-> args]
Constant == [type |-> "Constant"]
Assign(targets, value, line) ==
    [type |-> "Assign", targets |-> targets, value |-> value, lineno |-> line]
Expr(value, line) == [type |-> "Expr", value |-> value, lineno |-> line]
Import(names, line) == [type |-> "Import", names |-> names, lineno |-> line]
ImportFrom(module, names, line) ==
    [type |-> "ImportFrom", module |-> module, names |-> names, lineno |-> line]
Def(kind, line) == [type |-> kind, lineno |-> line]
End == [type |-> "End"]

\* ast.iter_child_nodes: the children generic_visit visits, in field order.
\* The ctx of a Name and the aliases of an import have no visitor.
Children(node) ==
    CASE node.type = "Assign" -> node.targets \o <<node.value>>
      [] node.type = "Expr" -> <<node.value>>
      [] node.type = "Attribute" -> <<node.value>>
      [] node.type = "Call" -> <<node.func>> \o node.args
      [] OTHER -> <<>>

(***************************************************************************)
(* VariableAnalyzer                                                        *)
(***************************************************************************)
VariableAnalyzer_init == [used_vars |-> {}, scopes |-> <<EmptyDict>>]

enter_scope(a) == [a EXCEPT !.scopes = Append(@, EmptyDict)]

exit_scope(a) == [a EXCEPT !.scopes = SubSeq(@, 1, Len(@) - 1)]

RECURSIVE VariableAnalyzer_visit(_, _)
RECURSIVE VariableAnalyzer_visit_all(_, _)

VariableAnalyzer_generic_visit(a, node) == VariableAnalyzer_visit_all(a, Children(node))

VariableAnalyzer_visit_Assign(a, node) ==
    LET ids == {node.targets[i].id : i \in {j \in DOMAIN node.targets : node.targets[j].type = "Name"}}
        top == Len(a.scopes)
    IN  VariableAnalyzer_generic_visit(
            [a EXCEPT !.scopes[top] = DictSet(@, ids, node.lineno)], node)

VariableAnalyzer_visit_Name_AnyCtx(a, node) ==
    VariableAnalyzer_generic_visit([a EXCEPT !.used_vars = @ \cup {node.id}], node)

VariableAnalyzer_visit_Name(a, node) ==
    VariableAnalyzer_generic_visit(
        IF node.ctx = "Load" THEN [a EXCEPT !.used_vars = @ \cup {node.id}] ELSE a, node)

VariableAnalyzer_visit(a, node) ==
    CASE node.type = "Assign" -> VariableAnalyzer_visit_Assign(a, node)
      [] node.type = "Name" -> VariableAnalyzer_visit_Name(a, node)
      [] OTHER -> VariableAnalyzer_generic_visit(a, node)

VariableAnalyzer_visit_all(a, nodes) ==
    IF nodes = <<>> THEN a
    ELSE VariableAnalyzer_visit_all(VariableAnalyzer_visit(a, Head(nodes)), Tail(nodes))

RECURSIVE unused_in(_, _, _)
unused_in(scopes, used_vars, acc) ==
    IF scopes = <<>> THEN acc
    ELSE unused_in(Tail(scopes), used_vars,
                   DictUpdate(acc, DictFilter(Head(scopes), DOMAIN Head(scopes) \ used_vars)))

get_unused_vars(a) == unused_in(a.scopes, a.used_vars, EmptyDict)

(***************************************************************************)
(* ImportAnalyzer                                                          *)
(***************************************************************************)
ImportAnalyzer_init == [imports |-> {}, used_names |-> {}, star_imports |-> {}]

RECURSIVE ImportAnalyzer_visit(_, _)
RECURSIVE ImportAnalyzer_visit_all(_, _)

ImportAnalyzer_generic_visit(a, node) == ImportAnalyzer_visit_all(a, Children(node))

visit_Import(a, node) ==
    ImportAnalyzer_generic_visit(
        [a EXCEPT !.imports = @ \cup {<<node.names[i], node.lineno>> : i \in DOMAIN node.names}],
        node)

\* f"{module}.{alias.name}" if module else alias.name
full_name(module, alias) == IF module # <<>> THEN module \o alias ELSE alias

\* module = getattr(node, 'module', '') or "": None and "" are both <<>>.
visit_ImportFrom(a, node) ==
    LET module == node.module
        named == {i \in DOMAIN node.names : node.names[i] # Star}
        b == IF \E i \in DOMAIN node.names : node.names[i] = Star
             THEN [a EXCEPT !.star_imports = @ \cup {module}]
             ELSE a
    IN  ImportAnalyzer_generic_visit(
            [b EXCEPT !.imports = @ \cup {<<full_name(module, node.names[i]), node.lineno>> : i \in named}],
            node)

ImportAnalyzer_visit_Name(a, node) ==
    ImportAnalyzer_generic_visit(
        IF node.ctx = "Load" THEN [a EXCEPT !.used_names = @ \cup {<<node.id>>}] ELSE a, node)

\* The while loop of visit_Attribute: the analyzer and the node it ends on.
RECURSIVE attribute_loop(_, _)
attribute_loop(a, node) ==
    IF node.type = "Attribute"
    THEN attribute_loop(
            IF node.value.type = "Name"
            THEN [a EXCEPT !.used_names = @ \cup {<<node.value.id>>}]
            ELSE a,
            node.value)
    ELSE [a |-> a, node |-> node]

visit_Attribute_WithAttrs(a, node) ==
    LET r == attribute_loop([a EXCEPT !.used_names = @ \cup {<<node.attr>>}], node)
    IN  ImportAnalyzer_generic_visit(r.a, r.node)

visit_Attribute(a, node) ==
    LET r == attribute_loop(a, node)
    IN  ImportAnalyzer_generic_visit(r.a, r.node)

ImportAnalyzer_visit(a, node) ==
    CASE node.type = "Import" -> visit_Import(a, node)
      [] node.type = "ImportFrom" -> visit_ImportFrom(a, node)
      [] node.type = "Name" -> ImportAnalyzer_visit_Name(a, node)
      [] node.type = "Attribute" -> visit_Attribute(a, node)
      [] OTHER -> ImportAnalyzer_generic_visit(a, node)

ImportAnalyzer_visit_all(a, nodes) ==
    IF nodes = <<>> THEN a
    ELSE ImportAnalyzer_visit_all(ImportAnalyzer_visit(a, Head(nodes)), Tail(nodes))

get_unused_imports(a) == {imp \in a.imports : imp[1] \notin a.used_names}

(***************************************************************************)
(* StaticAnalyzer                                                          *)
(***************************************************************************)
StaticAnalyzer_init ==
    [unused_vars |-> {}, unused_imports |-> {}, syntax_errors |-> <<>>, star_imports |-> {}]

\* A SyntaxError always has a lineno attribute; its value is an int or None.
SyntaxErrors ==
    {[lineno |-> ln, msg |-> "invalid syntax"] :
        ln \in {None} \cup {PyInt(n) : n \in 1..MaxErrorLine}}

hasattr(obj, attr) == attr \in DOMAIN obj

\* str(error): the message, followed by the line when there is one.
str(error) == <<error.msg, error.lineno>>

handle_syntax_error_Dropped(r, error) == r

handle_syntax_error(r, error) ==
    [r EXCEPT !.syntax_errors =
        Append(@, [line |-> IF hasattr(error, "lineno") THEN error.lineno ELSE PyInt(0),
                   message |-> str(error)])]

analyze_variables(r, a) ==
    LET unused == get_unused_vars(a)
    IN  [r EXCEPT !.unused_vars = {[name |-> v, line |-> unused[v]] : v \in DOMAIN unused}]

analyze_imports(r, a) ==
    LET r1 == [r EXCEPT !.unused_imports =
                   {[name |-> imp[1], line |-> imp[2]] : imp \in get_unused_imports(a)}]
    IN  IF a.star_imports # {}
        THEN [r1 EXCEPT !.star_imports = {[module |-> m, line |-> 0] : m \in a.star_imports}]
        ELSE r1

(***************************************************************************)
(* The programs the environment feeds to analyze                           *)
(***************************************************************************)
Load(id) == Name(id, "Load")
Store(id) == Name(id, "Store")
os == <<"os">>
os_path == <<"os", "path">>

\* base.a1.a2...an: an attribute chain of length Len(attrs) on base.
RECURSIVE Chain(_, _)
Chain(base, attrs) ==
    IF attrs = <<>> THEN base
    ELSE Attribute(Chain(base, SubSeq(attrs, 1, Len(attrs) - 1)), attrs[Len(attrs)])

OsAttrs(n) == [i \in 1..n |-> CASE i = 1 -> "path" [] i = 2 -> "join" [] OTHER -> "sep"]
CallAttrs(n) == [i \in 1..n |-> IF i = 1 THEN "os" ELSE "sep"]

VariableStmts(l) ==
    { Assign(<<Store("x")>>, Constant, l),                      \* x = 1
      Assign(<<Store("y")>>, Constant, l),                      \* y = 1
      Assign(<<Store("y")>>, Load("x"), l),                     \* y = x
      Assign(<<Store("x"), Store("y")>>, Constant, l),          \* x = y = 1
      Assign(<<Attribute(Load("x"), "y")>>, Constant, l),       \* x.y = 1
      Expr(Load("x"), l),                                       \* x
      Expr(Load("y"), l) }                                      \* y

ImportStmts(l) ==
    { Import(<<os>>, l),                                        \* import os
      Import(<<os_path>>, l),                                   \* import os.path
      ImportFrom(os, <<<<"path">>, <<"join">>>>, l),            \* from os import path, join
      ImportFrom(os, <<Star>>, l),                              \* from os import *
      ImportFrom(None, <<<<"path">>>>, l),                      \* from . import path
      Expr(Load("os"), l),                                      \* os
      Expr(Load("path"), l) }                                   \* path
    \cup { Expr(Chain(Load("os"), OsAttrs(n)), l) : n \in 1..MaxChain }
                                                                \* os.path, os.path.join, ...
    \cup { Expr(Chain(Call(Load("join"), <<Load("path")>>), CallAttrs(n)), l) : n \in 1..MaxChain }
                                                                \* join(path).os, join(path).os.sep, ...

FullStmts(l) ==
    { Assign(<<Store("x")>>, Constant, l),                      \* x = 1
      Expr(Load("x"), l),                                       \* x
      Import(<<os>>, l),                                        \* import os
      ImportFrom(os, <<Star>>, l),                              \* from os import *
      Expr(Attribute(Load("os"), "path"), l) }                  \* os.path

Stmts(p, l) ==
    CASE p = "variables" -> VariableStmts(l)
      [] p = "imports" -> ImportStmts(l)
      [] OTHER -> FullStmts(l)

MaxStmts(p) ==
    CASE p = "variables" -> MaxStmtsVariables
      [] p = "imports" -> MaxStmtsImports
      [] OTHER -> MaxStmtsFull

MaxCallsOf(p) == IF p = "full" THEN MaxCalls ELSE 1

TreeInput(t) == [tree |-> t, error |-> <<>>]
ErrorInput(e) == [tree |-> <<>>, error |-> <<e>>]

(***************************************************************************)
(* Actions                                                                 *)
(***************************************************************************)
InitOf(p) ==
    /\ profile = p
    /\ pc = "idle"
    /\ report = StaticAnalyzer_init
    /\ va = VariableAnalyzer_init
    /\ ia = ImportAnalyzer_init
    /\ tree = <<>>
    /\ lineno = 0
    /\ depth = 0
    /\ stmts = 0
    /\ returned = <<>>

\* analyze, ast.parse raising SyntaxError: _handle_syntax_error, return self.report
AnalyzeSyntaxError ==
    /\ pc = "idle"
    /\ Len(returned) < MaxCallsOf(profile)
    /\ \E e \in SyntaxErrors :
          /\ report' = handle_syntax_error(report, e)
          /\ returned' = Append(returned, [input |-> ErrorInput(e), report |-> report'])
    /\ UNCHANGED <<profile, pc, va, ia, tree, lineno, depth, stmts>>

\* analyze, ast.parse returning a tree: the two analyzers are constructed
AnalyzeParsed ==
    /\ pc = "idle"
    /\ Len(returned) < MaxCallsOf(profile)
    /\ pc' = "walk"
    /\ va' = VariableAnalyzer_init
    /\ ia' = ImportAnalyzer_init
    /\ tree' = <<>>
    /\ lineno' = 0
    /\ depth' = 0
    /\ UNCHANGED <<profile, report, stmts, returned>>

\* NodeVisitor.visit of the next simple statement
VisitStmt ==
    /\ pc = "walk"
    /\ stmts < MaxStmts(profile)
    /\ \E node \in Stmts(profile, lineno + 1) :
          /\ va' = VariableAnalyzer_visit(va, node)
          /\ ia' = ImportAnalyzer_visit(ia, node)
          /\ tree' = Append(tree, node)
    /\ lineno' = lineno + 1
    /\ stmts' = stmts + 1
    /\ UNCHANGED <<profile, pc, report, depth, returned>>

\* visit_FunctionDef / visit_ClassDef up to generic_visit: _enter_scope
VisitDef ==
    /\ pc = "walk"
    /\ stmts < MaxStmts(profile)
    /\ depth < MaxDepth
    /\ \E kind \in {"FunctionDef", "ClassDef"} :
          tree' = Append(tree, Def(kind, lineno + 1))
    /\ va' = enter_scope(va)
    /\ lineno' = lineno + 1
    /\ depth' = depth + 1
    /\ stmts' = stmts + 1
    /\ UNCHANGED <<profile, pc, report, ia, returned>>

\* visit_FunctionDef / visit_ClassDef after generic_visit: _exit_scope
LeaveDef ==
    /\ pc = "walk"
    /\ depth > 0
    /\ va' = exit_scope(va)
    /\ tree' = Append(tree, End)
    /\ depth' = depth - 1
    /\ UNCHANGED <<profile, pc, report, ia, lineno, stmts, returned>>

\* analyze after both visits: the report is written and returned
AnalyzeReturn ==
    /\ pc = "walk"
    /\ depth = 0
    /\ report' = analyze_imports(analyze_variables(report, va), ia)
    /\ returned' = Append(returned, [input |-> TreeInput(tree), report |-> report'])
    /\ pc' = "idle"
    /\ UNCHANGED <<profile, va, ia, tree, lineno, depth, stmts>>

Next ==
    \/ AnalyzeSyntaxError
    \/ AnalyzeParsed
    \/ VisitStmt
    \/ VisitDef
    \/ LeaveDef
    \/ AnalyzeReturn

Init == InitOf("full")
InitVariables == InitOf("variables")
InitImports == InitOf("imports")

Spec == Init /\ [][Next]_vars
SpecVariables == InitVariables /\ [][Next]_vars
SpecImports == InitImports /\ [][Next]_vars

(***************************************************************************)
(* What a tree contains, read off the tree itself                          *)
(***************************************************************************)
\* The identifiers of the Name nodes in Load context under a node.
RECURSIVE LoadIds(_)
LoadIds(node) ==
    (IF node.type = "Name" /\ node.ctx = "Load" THEN {node.id} ELSE {})
        \cup UNION {LoadIds(c) : c \in Range(Children(node))}

TreeLoadIds(t) == UNION {LoadIds(t[k]) : k \in DOMAIN t}

\* The bodies open after the first k entries of t: 0 is the module, a
\* function or class body is named by the position of its definition.
RECURSIVE FrameStack(_, _)
FrameStack(t, k) ==
    IF k = 0 THEN <<0>>
    ELSE LET s == FrameStack(t, k - 1)
         IN  CASE t[k].type \in {"FunctionDef", "ClassDef"} -> Append(s, k)
               [] t[k].type = "End" -> SubSeq(s, 1, Len(s) - 1)
               [] OTHER -> s

\* Every (scope, name, line) an assignment to a simple name writes.
Writes(t) ==
    UNION {{[scope |-> Last(FrameStack(t, k - 1)), name |-> t[k].targets[i].id, line |-> t[k].lineno] :
                i \in {j \in DOMAIN t[k].targets : t[k].targets[j].type = "Name"}} :
           k \in {n \in DOMAIN t : t[n].type = "Assign"}}

\* The entry each (scope, name) is left with: its last write.
Retained(t) ==
    {w \in Writes(t) :
        \A w2 \in Writes(t) : (w2.scope = w.scope /\ w2.name = w.name) => w2.line <= w.line}

\* The frame of scope f: name -> line of the last assignment in f.
LastWrites(t, f) ==
    [n \in {w.name : w \in {x \in Retained(t) : x.scope = f}} |->
        (CHOOSE w \in Retained(t) : w.scope = f /\ w.name = n).line]

\* The modules of the wildcard from-imports of t.
WildModules(t) ==
    {t[k].module : k \in {n \in DOMAIN t : t[n].type = "ImportFrom" /\ Star \in Range(t[n].names)}}

\* The last call has returned and its text parsed; LastTree is its tree.
ParsedReturn == pc = "idle" /\ returned # <<>> /\ Last(returned).input.error = <<>>
LastTree == Last(returned).input.tree

(***************************************************************************)
(* Claims                                                                  *)
(***************************************************************************)

\* C1: after the whole tree has been visited, the unused variables are every
\* entry an assignment wrote into any frame (module, function or class body,
\* at any depth) whose name is absent from the final read set; a name
\* assigned once inside a function and never read is reported at its line.
C1_RetainedEntriesReported ==
    ParsedReturn =>
        {<<r.name, r.line>> : r \in report.unused_vars}
            = {<<w.name, w.line>> : w \in {x \in Retained(LastTree) : x.name \notin TreeLoadIds(LastTree)}}

\* C2: an import record named Q is returned by get_unused_imports if and only
\* if the first dot-segment of Q is absent from the import read set.
C2_RootSegmentDecides ==
    ParsedReturn =>
        get_unused_imports(ia) = {imp \in ia.imports : <<Head(imp[1])>> \notin ia.used_names}

\* C3: for `from M import n1, n2, ...`, get_unused_imports omits the record M.n
\* of every imported name n that is read somewhere in the tree and contains
\* the record M.n of every imported name that is never read.
C3_FromImportUsedByName ==
    ParsedReturn =>
        \A k \in {n \in DOMAIN LastTree : LastTree[n].type = "ImportFrom" /\ LastTree[n].module # <<>>} :
            \A i \in {j \in DOMAIN LastTree[k].names : LastTree[k].names[j] # Star} :
                LET rec == <<LastTree[k].module \o LastTree[k].names[i], LastTree[k].lineno>>
                IN  rec \in get_unused_imports(ia) <=> LastTree[k].names[i][1] \notin TreeLoadIds(LastTree)

\* C4: the report a call returns depends only on that call's input: two calls
\* of analyze with the same input, on the same StaticAnalyzer, return equal reports.
C4_ReportDependsOnInputOnly ==
    \A i, j \in DOMAIN returned :
        returned[i].input = returned[j].input => returned[i].report = returned[j].report

\* C5: the first call on a new StaticAnalyzer, with text that fails to parse,
\* runs no analyzer and returns exactly one syntax_errors entry (line, message)
\* and empty unused_vars, unused_imports and star_imports; with text that
\* parses it returns empty syntax_errors.
C5_FirstCallSyntaxErrorOnly ==
    returned # <<>> =>
        LET c == returned[1]
        IN  IF c.input.error # <<>>
            THEN /\ Len(c.report.syntax_errors) = 1
                 /\ DOMAIN c.report.syntax_errors[1] = {"line", "message"}
                 /\ c.report.syntax_errors[1].message = str(c.input.error[1])
                 /\ c.report.unused_vars = {}
                 /\ c.report.unused_imports = {}
                 /\ c.report.star_imports = {}
                 /\ (Len(returned) = 1 /\ pc = "idle" =>
                        va = VariableAnalyzer_init /\ ia = ImportAnalyzer_init /\ tree = <<>>)
            ELSE c.report.syntax_errors = <<>>

C5_Witness ==
    /\ Len(returned) = 1
    /\ returned[1].input.error # <<>>
    /\ Len(report.syntax_errors) = 1

\* C6: star_imports is exactly the set of modules with a wildcard from-import
\* in the tree, each with line 0, and a wildcard import adds no import record
\* and never appears in unused_imports.
C6_StarImportsExact ==
    ParsedReturn =>
        /\ report.star_imports = {[module |-> m, line |-> 0] : m \in WildModules(LastTree)}
        /\ \A imp \in ia.imports : Last(imp[1]) # "*"
        /\ \A r \in report.unused_imports : Last(r.name) # "*"

\* C7: unused_vars never contains a name read in Load context anywhere in the
\* tree, whichever scope holds the read and whether it comes before or after
\* the assignment; a module-level name assigned and never read is reported
\* with the line of its assignment.
C7_GlobalReadSet ==
    ParsedReturn =>
        /\ \A r \in report.unused_vars : r.name \notin TreeLoadIds(LastTree)
        /\ \A w \in Retained(LastTree) :
              (w.scope = 0 /\ w.name \notin TreeLoadIds(LastTree))
                  => [name |-> w.name, line |-> w.line] \in report.unused_vars

\* def f(): / x = 1 / x  then  y = 1 at line 4: exactly {y: 4}.
C7_Witness ==
    /\ ParsedReturn
    /\ LastTree = << Def("FunctionDef", 1), Assign(<<Store("x")>>, Constant, 2),
                     Expr(Load("x"), 3), End, Assign(<<Store("y")>>, Constant, 4) >>
    /\ report.unused_vars = {[name |-> "y", line |-> 4]}

\* C8 (frames): during the walk each open frame holds, for every name assigned
\* in its body so far, the line of the last assignment there, and nothing else.
C8_FramesHoldLastWrite ==
    pc = "walk" =>
        LET st == FrameStack(tree, Len(tree))
        IN  /\ Len(va.scopes) = Len(st)
            /\ \A k \in DOMAIN st : va.scopes[k] = LastWrites(tree, st[k])

\* C8: an assignment writes only the top frame, each frame keeps the line of
\* the last assignment to a name, and so a never-read name assigned several
\* times in one scope is reported once, at the line of its last assignment.
C8_LastWriteReportedOnce ==
    /\ C8_FramesHoldLastWrite
    /\ ParsedReturn =>
          \A w \in Retained(LastTree) :
              ( /\ w.name \notin TreeLoadIds(LastTree)
                /\ Cardinality({x \in Writes(LastTree) : x.scope = w.scope /\ x.name = w.name}) > 1
                /\ \A x \in Writes(LastTree) : x.name = w.name => x.scope = w.scope )
              => {r \in report.unused_vars : r.name = w.name} = {[name |-> w.name, line |-> w.line]}

\* C9: the line of a reported syntax error is the parser's line when there is
\* one and 0 when the error carries no line number.
C9_ErrorLineIsInt ==
    \A i \in DOMAIN returned :
        returned[i].input.error # <<>> =>
            LET e == returned[i].input.error[1]
            IN  Last(returned[i].report.syntax_errors).line
                    = IF e.lineno = None THEN PyInt(0) ELSE e.lineno

\* C10: the import read set holds exactly the identifiers read as names: an
\* attribute chain adds its innermost base identifier only, never an
\* attribute name, and the names read inside a call at the base are added.
C10_ChainAddsBaseOnly ==
    ia.used_names = {<<id>> : id \in TreeLoadIds(tree)}

\* os.path.join then join(path).os.sep: the first adds os only, the second
\* join and path; join, sep and the attribute path are not added by a chain.
C10_Witness ==
    /\ pc = "walk"
    /\ tree = << Expr(Chain(Load("os"), OsAttrs(MaxChain)), 1),
                 Expr(Chain(Call(Load("join"), <<Load("path")>>), CallAttrs(MaxChain)), 2) >>
    /\ ia.used_names = {<<"os">>, <<"join">>, <<"path">>}

====
